---------------------------- MODULE Spec2Model ----------------------------
(***************************************************************************)
(* A model of oi_navi (src/src/App.tsx): the path-to-metadata inference    *)
(* (mapPathToEntry), the option builder (buildOptions), the filter/sort    *)
(* memo (filteredEntries) and the load orchestration (loadData) with its   *)
(* cache and its two network calls.                                        *)
(*                                                                         *)
(* JavaScript strings that the code inspects character by character are    *)
(* tuples of one-character strings (<<"2","0","2","4">>); strings the code *)
(* only passes around (branch names, timestamps of the remote, status      *)
(* texts) are TLA+ strings.                                                *)
(***************************************************************************)
EXTENDS Integers, Sequences, FiniteSets, TLC

VARIABLES
    \* ---- mapPathToEntry's call: arguments and result
    parts,        \* the segments the path was joined from (the path's ground truth)
    path,         \* argument: the repository-relative path
    source,       \* argument: the data source
    result,       \* NotCalled, Null or the ProblemEntry returned
    \* ---- buildOptions' call: arguments and result
    values,       \* argument: Array<string | undefined>
    sortNumber,   \* argument
    options,      \* NotCalled or the array returned
    \* ---- App's React state (App.tsx 196-206)
    dataSource, entries, filteredText, year, contest, level,
    status, statusNote, branch, updatedAt, fromCache,
    \* ---- App's environment
    cache,        \* localStorage: source -> item under oi_navi_data_v1_<source>
    now,          \* Date.now()
    loads,        \* the loadData invocations awaiting a network call
    started,      \* number of loadData invocations so far
    ticks,        \* number of clock advances so far
    \* ---- history (not read by any action's guard)
    ev,           \* what the last step did
    owner         \* the source of the load that last wrote entries; whether a load threw

varsParse == <<parts, path, source, result>>
varsOpt   == <<values, sortNumber, options>>
varsView  == <<entries, filteredText, year, contest, level>>
varsLoad  == <<dataSource, status, statusNote, branch, updatedAt, fromCache,
               cache, now, loads, started, ticks, ev, owner>>
vars      == <<varsParse, varsOpt, varsView, varsLoad>>

(***************************************************************************)
(* Bounds of the model.                                                    *)
(***************************************************************************)
MaxDirs == 4
MaxValues == 3
MaxEntries == 3
MaxLoads == 2
MaxTicks == 2

(***************************************************************************)
(* JavaScript values.                                                      *)
(***************************************************************************)
Undefined == <<"undefined">>
Null == [null |-> TRUE]
NotCalled == [called |-> FALSE]

\* JavaScript truthiness of a string | undefined
Truthy(v) == v # Undefined /\ v # <<>>

\* array[k] with a 0-based index: undefined outside the array
At(array, k) == IF k >= 0 /\ k < Len(array) THEN array[k + 1] ELSE Undefined

Digits == {"0", "1", "2", "3", "4", "5", "6", "7", "8", "9"}

DigitValue(c) ==
    CASE c = "0" -> 0 [] c = "1" -> 1 [] c = "2" -> 2 [] c = "3" -> 3
      [] c = "4" -> 4 [] c = "5" -> 5 [] c = "6" -> 6 [] c = "7" -> 7
      [] c = "8" -> 8 [] c = "9" -> 9

SetMax(S) == CHOOSE m \in S : \A n \in S : n <= m
SetMin(S) == CHOOSE m \in S : \A n \in S : m <= n

RECURSIVE Concat(_)
Concat(seqs) == IF seqs = <<>> THEN <<>> ELSE Head(seqs) \o Concat(Tail(seqs))

\* String.prototype.split(sep) for a one-character separator
RECURSIVE SplitFrom(_, _, _, _)
SplitFrom(s, sep, i, cur) ==
    IF i > Len(s) THEN <<cur>>
    ELSE IF s[i] = sep THEN <<cur>> \o SplitFrom(s, sep, i + 1, <<>>)
    ELSE SplitFrom(s, sep, i + 1, Append(cur, s[i]))

Split(s, sep) == SplitFrom(s, sep, 1, <<>>)

\* Array.prototype.join(sep)
RECURSIVE Join(_, _)
Join(array, sep) ==
    IF array = <<>> THEN <<>>
    ELSE IF Len(array) = 1 THEN array[1]
    ELSE array[1] \o <<sep>> \o Join(Tail(array), sep)

UpperToLower ==
    [c \in {"A", "B", "C", "D", "E", "F", "G", "H", "I", "J", "K", "L", "M",
            "N", "O", "P", "Q", "R", "S", "T", "U", "V", "W", "X", "Y", "Z"} |->
       CASE c = "A" -> "a" [] c = "B" -> "b" [] c = "C" -> "c" [] c = "D" -> "d"
         [] c = "E" -> "e" [] c = "F" -> "f" [] c = "G" -> "g" [] c = "H" -> "h"
         [] c = "I" -> "i" [] c = "J" -> "j" [] c = "K" -> "k" [] c = "L" -> "l"
         [] c = "M" -> "m" [] c = "N" -> "n" [] c = "O" -> "o" [] c = "P" -> "p"
         [] c = "Q" -> "q" [] c = "R" -> "r" [] c = "S" -> "s" [] c = "T" -> "t"
         [] c = "U" -> "u" [] c = "V" -> "v" [] c = "W" -> "w" [] c = "X" -> "x"
         [] c = "Y" -> "y" [] c = "Z" -> "z"]

toLowerCase(s) ==
    [i \in 1..Len(s) |-> IF s[i] \in DOMAIN UpperToLower THEN UpperToLower[s[i]] ELSE s[i]]

(***************************************************************************)
(* CONFIG (App.tsx 22-41) and the helpers of mapPathToEntry.               *)
(***************************************************************************)
DataSources == {"gitee", "github"}

CONFIG ==
    [s \in DataSources |->
       IF s = "gitee"
       THEN [owner |-> "winant", repo |-> "oi", apiRoot |-> "https://gitee.com/api/v5",
             fallbackBranch |-> "master", urlRoot |-> "https://gitee.com", label |-> "Gitee"]
       ELSE [owner |-> "winterant", repo |-> "oi", apiRoot |-> "https://api.github.com",
             fallbackBranch |-> "main", urlRoot |-> "https://github.com", label |-> "GitHub"]]

\* path.split('.').pop()?.toLowerCase() ?? ''
getExtension(p) ==
    LET pieces == Split(p, ".") IN toLowerCase(pieces[Len(pieces)])

\* encodeURIComponent on the characters of the model: letters, digits and '.'
\* are unreserved, a space is escaped
encodeURIComponent(segment) ==
    Concat([i \in 1..Len(segment) |->
              IF segment[i] = " " THEN <<"%", "2", "0">> ELSE <<segment[i]>>])

buildRepoUrl(p, br, src) ==
    LET conf == CONFIG[src]
        segs == Split(p, "/")
        encodedPath == Join([i \in 1..Len(segs) |-> encodeURIComponent(segs[i])], "/")
        isPdf == getExtension(p) = <<"p", "d", "f">>
    IN  IF src = "gitee"
        THEN [root |-> conf.urlRoot, owner |-> conf.owner, repo |-> conf.repo,
              kind |-> IF isPdf THEN "raw" ELSE "blob", branch |-> br, path |-> encodedPath]
        ELSE IF isPdf
             THEN [root |-> "https://raw.githubusercontent.com", owner |-> conf.owner,
                   repo |-> conf.repo, kind |-> "", branch |-> br, path |-> encodedPath]
             ELSE [root |-> conf.urlRoot, owner |-> conf.owner, repo |-> conf.repo,
                   kind |-> "blob", branch |-> br, path |-> encodedPath]

YearDigits == 4

\* /^\d{4}$/.test(segment)
TestYearLoose(segment) ==
    /\ Len(segment) >= YearDigits
    /\ \A i \in 1..YearDigits : segment[i] \in Digits

TestYear(segment) ==
    /\ Len(segment) = YearDigits
    /\ \A i \in 1..Len(segment) : segment[i] \in Digits

\* fileName.replace(/\.[^.]+$/, ''): the match starts at the last '.', and only
\* when at least one character follows it
StripExtension(fileName) ==
    LET dots == {i \in 1..Len(fileName) : fileName[i] = "."}
    IN  IF dots = {} \/ SetMax(dots) = Len(fileName)
        THEN fileName
        ELSE SubSeq(fileName, 1, SetMax(dots) - 1)

\* infoSegments.findIndex(...): 0-based, -1 when no segment matches
FindYearIndex(infoSegments) ==
    LET hits == {i \in 1..Len(infoSegments) : TestYear(infoSegments[i])}
    IN  IF hits = {} THEN -1 ELSE SetMin(hits) - 1

\* let level = ...; if (!level && yearIndex > 1) ...   (App.tsx 120-125)
InferLevelNoFallback(infoSegments, yearIndex) ==
    IF yearIndex >= 0 /\ Truthy(At(infoSegments, yearIndex + 1))
    THEN At(infoSegments, yearIndex + 1)
    ELSE Undefined

InferLevel(infoSegments, yearIndex) ==
    LET first == IF yearIndex >= 0 /\ Truthy(At(infoSegments, yearIndex + 1))
                 THEN At(infoSegments, yearIndex + 1)
                 ELSE Undefined
    IN  IF ~Truthy(first) /\ yearIndex > 1
        THEN At(infoSegments, yearIndex - 1)
        ELSE first

mapPathToEntry(p, br, src) ==
    LET segments == Split(p, "/")
        fileName == segments[Len(segments)]
        infoSegments == SubSeq(segments, 1, Len(segments) - 1)
        yearIndex == FindYearIndex(infoSegments)
        dirYear == IF yearIndex >= 0 THEN At(infoSegments, yearIndex) ELSE Undefined
        nameWithoutExt == StripExtension(fileName)
        yearOf == IF ~Truthy(dirYear)
                  THEN IF TestYear(nameWithoutExt) THEN nameWithoutExt ELSE dirYear
                  ELSE dirYear
        contestCandidate ==
            IF yearIndex > 0 THEN At(infoSegments, 0)
            ELSE IF At(infoSegments, 0) = yearOf THEN At(infoSegments, 1)
            ELSE At(infoSegments, 0)
        contestOf == IF Truthy(contestCandidate) /\ contestCandidate # fileName
                     THEN contestCandidate ELSE Undefined
        nameOf == IF StripExtension(fileName) # <<>> THEN StripExtension(fileName)
                  ELSE fileName
    IN  IF ~Truthy(fileName) THEN Null
        ELSE [id |-> p, name |-> nameOf, path |-> p, url |-> buildRepoUrl(p, br, src),
              contest |-> contestOf, year |-> yearOf,
              level |-> InferLevel(infoSegments, yearIndex),
              segments |-> infoSegments]


(***************************************************************************)
(* JavaScript numbers, as far as the two comparators use them: integers,   *)
(* the two infinities and NaN.                                             *)
(***************************************************************************)
Num(n) == [k |-> "num", v |-> n]
NegInfinity == [k |-> "-inf", v |-> 0]
PosInfinity == [k |-> "+inf", v |-> 0]
NaN == [k |-> "nan", v |-> 0]

\* x - y
Minus(x, y) ==
    IF x.k = "nan" \/ y.k = "nan" THEN NaN
    ELSE IF x.k = "num" /\ y.k = "num" THEN Num(x.v - y.v)
    ELSE IF x.k = "num" THEN (IF y.k = "-inf" THEN PosInfinity ELSE NegInfinity)
    ELSE IF y.k = "num" THEN x
    ELSE IF x.k = y.k THEN NaN
    ELSE x

\* Number.isFinite(x)
isFinite(x) == x.k = "num"

\* parseInt(value, 10): leading white space, an optional sign, then the longest
\* run of digits; NaN when there is no digit
RECURSIVE DigitsValue(_, _, _)
DigitsValue(s, i, acc) ==
    IF i > Len(s) \/ s[i] \notin Digits THEN acc
    ELSE DigitsValue(s, i + 1, acc * 10 + DigitValue(s[i]))

parseInt(s) ==
    LET nonBlank == {i \in 1..Len(s) : s[i] # " "}
        start == IF nonBlank = {} THEN Len(s) + 1 ELSE SetMin(nonBlank)
        signed == start <= Len(s) /\ s[start] \in {"+", "-"}
        first == IF signed THEN start + 1 ELSE start
        magnitude == DigitsValue(s, first, 0)
    IN  IF first > Len(s) \/ s[first] \notin Digits THEN NaN
        ELSE IF signed /\ s[start] = "-" THEN Num(0 - magnitude)
        ELSE Num(magnitude)

(***************************************************************************)
(* String.prototype.localeCompare on the characters of the model, after    *)
(* the root collation: white space, punctuation, digits, letters; letters  *)
(* compare by letter first and by case (lower before upper) only when the  *)
(* strings are otherwise equal.                                            *)
(***************************************************************************)
AlphabetUpper ==
    <<"A", "B", "C", "D", "E", "F", "G", "H", "I", "J", "K", "L", "M",
      "N", "O", "P", "Q", "R", "S", "T", "U", "V", "W", "X", "Y", "Z">>

IsUpper(c) == c \in DOMAIN UpperToLower
IsLower(c) == \E u \in DOMAIN UpperToLower : UpperToLower[u] = c

LetterIndex(c) ==
    CHOOSE i \in 1..Len(AlphabetUpper) :
        AlphabetUpper[i] = c \/ UpperToLower[AlphabetUpper[i]] = c

PrimaryRank(c) ==
    CASE c = " " -> 0 [] c = "." -> 1 [] c = "/" -> 2 [] c = "%" -> 3
      [] c = "+" -> 4 [] c = "-" -> 5
      [] c \in Digits -> 10 + DigitValue(c)
      [] IsUpper(c) \/ IsLower(c) -> 20 + LetterIndex(c)
      [] OTHER -> 60

CaseRank(c) == IF IsUpper(c) THEN 1 ELSE 0

RankOf(tier, c) == IF tier = "primary" THEN PrimaryRank(c) ELSE CaseRank(c)

\* lexicographic comparison of two strings by rank: -1, 0 or 1
RECURSIVE CompareBy(_, _, _, _)
CompareBy(tier, a, b, i) ==
    IF i > Len(a) /\ i > Len(b) THEN 0
    ELSE IF i > Len(a) THEN -1
    ELSE IF i > Len(b) THEN 1
    ELSE IF RankOf(tier, a[i]) < RankOf(tier, b[i]) THEN -1
    ELSE IF RankOf(tier, a[i]) > RankOf(tier, b[i]) THEN 1
    ELSE CompareBy(tier, a, b, i + 1)

localeCompare(a, b) ==
    IF CompareBy("primary", a, b, 1) # 0
    THEN Num(CompareBy("primary", a, b, 1))
    ELSE Num(CompareBy("case", a, b, 1))

(***************************************************************************)
(* The comparators of buildOptions (App.tsx 61-67) and of filteredEntries  *)
(* (App.tsx 319-330).                                                      *)
(***************************************************************************)
safeParse(value) ==
    IF isFinite(parseInt(value)) THEN parseInt(value) ELSE NegInfinity

NumberComparator(a, b) == Minus(safeParse(b), safeParse(a))

getYearAsNumber(value) ==
    LET parsed == IF Truthy(value) THEN parseInt(value) ELSE NaN
    IN  IF isFinite(parsed) THEN parsed ELSE NegInfinity

EntryComparator(a, b) ==
    LET diff == Minus(getYearAsNumber(b.year), getYearAsNumber(a.year))
    IN  IF diff # Num(0) THEN diff
        ELSE IF Truthy(a.contest) /\ Truthy(b.contest) /\ a.contest # b.contest
             THEN localeCompare(a.contest, b.contest)
             ELSE localeCompare(a.path, b.path)

(***************************************************************************)
(* Array.prototype.sort(comparefn): stable; a comparator result of NaN     *)
(* counts as 0 (ECMAScript SortCompare).  Modelled as an insertion sort.   *)
(***************************************************************************)
IsPositive(v) == v.k = "+inf" \/ (v.k = "num" /\ v.v > 0)
IsNegative(v) == v.k = "-inf" \/ (v.k = "num" /\ v.v < 0)

\* the three comparators handed to sort
Compare(comparefn, a, b) ==
    CASE comparefn = "number" -> NumberComparator(a, b)
      [] comparefn = "locale" -> localeCompare(a, b)
      [] comparefn = "entry" -> EntryComparator(a, b)

\* insert x after the last element that is not strictly after it
RECURSIVE InsertSorted(_, _, _)
InsertSorted(comparefn, sorted, x) ==
    IF sorted = <<>> THEN <<x>>
    ELSE IF IsPositive(Compare(comparefn, sorted[Len(sorted)], x))
         THEN Append(InsertSorted(comparefn, SubSeq(sorted, 1, Len(sorted) - 1), x),
                     sorted[Len(sorted)])
         ELSE Append(sorted, x)

RECURSIVE SortPrefix(_, _, _)
SortPrefix(comparefn, array, n) ==
    IF n = 0 THEN <<>>
    ELSE InsertSorted(comparefn, SortPrefix(comparefn, array, n - 1), array[n])

Sort(comparefn, array) == SortPrefix(comparefn, array, Len(array))

(***************************************************************************)
(* buildOptions (App.tsx 58-68).                                           *)
(***************************************************************************)
\* Array.from(new Set(values.filter(Boolean))): first occurrences, in order
RECURSIVE UniqueTruthy(_, _)
UniqueTruthy(array, n) ==
    IF n = 0 THEN <<>>
    ELSE LET before == UniqueTruthy(array, n - 1)
         IN  IF Truthy(array[n]) /\ \A i \in 1..Len(before) : before[i] # array[n]
             THEN Append(before, array[n])
             ELSE before

buildOptions(vals, sortNum) ==
    LET unique == UniqueTruthy(vals, Len(vals))
    IN  IF sortNum THEN Sort("number", unique)
        ELSE Sort("locale", unique)

(***************************************************************************)
(* filteredEntries (App.tsx 298-331).                                      *)
(***************************************************************************)
\* String.prototype.trim on the white space of the model
trim(s) ==
    LET nonBlank == {i \in 1..Len(s) : s[i] # " "}
    IN  IF nonBlank = {} THEN <<>> ELSE SubSeq(s, SetMin(nonBlank), SetMax(nonBlank))

\* String.prototype.includes
includes(s, needle) ==
    \E i \in 1..(Len(s) + 1) :
        /\ i + Len(needle) - 1 <= Len(s)
        /\ SubSeq(s, i, i + Len(needle) - 1) = needle

RECURSIVE SelectTruthy(_)
SelectTruthy(array) ==
    IF array = <<>> THEN <<>>
    ELSE IF Truthy(Head(array)) THEN <<Head(array)>> \o SelectTruthy(Tail(array))
    ELSE SelectTruthy(Tail(array))

combined(entry) ==
    toLowerCase(Join(SelectTruthy(<<entry.name, entry.path, entry.contest,
                                    entry.year, entry.level>>), " "))

Matches(entry, y, c, l, text) ==
    /\ Truthy(y) => entry.year = y
    /\ Truthy(c) => entry.contest = c
    /\ Truthy(l) => entry.level = l
    /\ Truthy(text) => includes(combined(entry), text)

filteredEntriesOf(es, y, c, l, text) ==
    Sort("entry",
         SelectSeq(es, LAMBDA e : Matches(e, y, c, l, toLowerCase(trim(text)))))

(***************************************************************************)
(* Helpers of the specifications.                                          *)
(***************************************************************************)
FiltersEmpty ==
    /\ filteredText = <<>> /\ year = <<>> /\ contest = <<>> /\ level = <<>>

\* Sequences over S of length at most n
SeqsUpTo(S, n) == UNION {[1..k -> S] : k \in 0..n}

\* The rearrangements of a sequence
Rearrangements(seq) ==
    {[i \in 1..Len(seq) |-> seq[f[i]]] :
        f \in {g \in [1..Len(seq) -> 1..Len(seq)] :
                 \A i, j \in 1..Len(seq) : g[i] = g[j] => i = j}}

(***************************************************************************)
(* mapPathToEntry applied to paths joined from a few directory and file    *)
(* names.                                                                  *)
(***************************************************************************)
DirTokens ==
    { <<>>,
      <<"2", "0", "2", "4">>,
      <<"2", "0", "2", "3">>,
      <<"2", "0", "2", "4", "5">>,
      <<"A">>,
      <<"B">> }

FileTokens ==
    { <<>>,
      <<"F">>,
      <<"A">>,
      <<"2", "0", "2", "3", ".", "P">>,
      <<"2", "0", "2", "2">>,
      <<"2", "0", "2", "2", ".">>,
      <<".", "P">> }

MapPath ==
    /\ result = NotCalled
    /\ result' = mapPathToEntry(path, CONFIG[source].fallbackBranch, source)
    /\ UNCHANGED <<parts, path, source, varsOpt, varsView, varsLoad>>

(***************************************************************************)
(* buildOptions applied to a few arrays.                                   *)
(***************************************************************************)
OptionPool ==
    { Undefined,
      <<>>,
      <<"2", "0", "2", "4">>,
      <<"2", "0", "2", "0">>,
      <<"A", "B", "C">>,
      <<"X", "Y", "Z">> }

BuildOptions ==
    /\ options = NotCalled
    /\ options' = [called |-> TRUE, value |-> buildOptions(values, sortNumber)]
    /\ UNCHANGED <<values, sortNumber, varsParse, varsView, varsLoad>>

(***************************************************************************)
(* The filter controls over a few entry collections (App.tsx 298-331,      *)
(* 432-473).                                                               *)
(***************************************************************************)
EntryPaths ==
    { <<"R", ".", "M", "D">>,
      <<"L">>,
      <<"2", "0", "2", "4", "/", "M", "/", "F">>,
      <<"2", "0", "2", "4", "/", "N">>,
      <<"A", "/", "2", "0", "2", "4", "/", "F">>,
      <<"A", "/", "2", "0", "2", "3", "/", "F">> }

EntryPool == {mapPathToEntry(p, "master", "gitee") : p \in EntryPaths}

TextPool == { <<" ", "M", " ">>, <<"2", "0", "2", "3">> }

filteredEntries == filteredEntriesOf(entries, year, contest, level, filteredText)

Column(es, field) ==
    [i \in 1..Len(es) |->
       CASE field = "year" -> es[i].year
         [] field = "contest" -> es[i].contest
         [] field = "level" -> es[i].level]

yearOptions == buildOptions(Column(entries, "year"), TRUE)
contestOptions == buildOptions(Column(entries, "contest"), FALSE)
levelOptions == buildOptions(Column(entries, "level"), FALSE)

Range(seq) == {seq[i] : i \in 1..Len(seq)}

\* <Selector ... onChange={setYear}>: one of the options, or the placeholder ''
setYear ==
    /\ \E v \in Range(yearOptions) \cup {<<>>} : v # year /\ year' = v
    /\ UNCHANGED <<entries, filteredText, contest, level, varsParse, varsOpt, varsLoad>>

setContest ==
    /\ \E v \in Range(contestOptions) \cup {<<>>} : v # contest /\ contest' = v
    /\ UNCHANGED <<entries, filteredText, year, level, varsParse, varsOpt, varsLoad>>

setLevel ==
    /\ \E v \in Range(levelOptions) \cup {<<>>} : v # level /\ level' = v
    /\ UNCHANGED <<entries, filteredText, year, contest, varsParse, varsOpt, varsLoad>>

setFilteredText ==
    /\ \E v \in TextPool \cup {<<>>} : v # filteredText /\ filteredText' = v
    /\ UNCHANGED <<entries, year, contest, level, varsParse, varsOpt, varsLoad>>

\* the reset button (App.tsx 463-473)
ResetFilters ==
    /\ ~FiltersEmpty
    /\ year' = <<>> /\ contest' = <<>> /\ level' = <<>> /\ filteredText' = <<>>
    /\ UNCHANGED <<entries, varsParse, varsOpt, varsLoad>>

(***************************************************************************)
(* loadData and its environment (App.tsx 141-169, 195-296).                *)
(***************************************************************************)
\* an absent value among TLA+ strings (RepoInfo's optional fields, updatedAt)
Absent == "undefined"

SAMPLE_ENTRIES ==
    << [id |-> <<"s", "a", "m", "p", "l", "e", "-", "r", "e", "a", "d", "m", "e">>,
        name |-> <<"R", "E", "A", "D", "M", "E">>,
        path |-> <<"R", "E", "A", "D", "M", "E", ".", "m", "d">>,
        url |-> [root |-> "https://gitee.com", owner |-> "winant", repo |-> "oi",
                 kind |-> "", branch |-> "", path |-> <<>>],
        contest |-> <<"h", "o", "m", "e">>,
        year |-> Undefined, level |-> Undefined, segments |-> <<>>] >>

CACHE_DURATION == 1000 * 60 * 60 * 24

\* Date.now() - timestamp < CACHE_DURATION
CacheIsFreshInclusive(timestamp) == now - timestamp <= CACHE_DURATION

CacheIsFresh(timestamp) == now - timestamp < CACHE_DURATION

\* localStorage items: nothing under the key, text JSON.parse rejects, or the
\* record loadData wrote
NoItem == [kind |-> "none", timestamp |-> 0, data |-> <<>>, branch |-> "", updatedAt |-> Absent]
CorruptItem == [kind |-> "corrupt", timestamp |-> 0, data |-> <<>>, branch |-> "", updatedAt |-> Absent]
JsonItem(ts, data, br, upd) ==
    [kind |-> "json", timestamp |-> ts, data |-> data, branch |-> br, updatedAt |-> upd]

\* What the two remote calls may answer: a repository without default_branch
\* (gitee) and one with it (github); a payload with and without a tree.
RepoInfos(src) ==
    {[default_branch |-> b, pushed_at |-> IF src = "gitee" THEN "2024-01-01" ELSE "2024-02-02"] :
        b \in IF src = "gitee" THEN {Absent} ELSE {"dev"}}

TreeOf(src) ==
    IF src = "gitee"
    THEN << [path |-> <<"N">>, type |-> "tree"],
            [path |-> <<"N", "/", "2", "0", "2", "4", "/", "F", ".", "P", "D", "F">>, type |-> "blob"],
            [path |-> <<"R", ".", "M", "D">>, type |-> "blob"] >>
    ELSE << [path |-> <<"R", ".", "M", "D">>, type |-> "blob"],
            [path |-> <<"L">>, type |-> "blob"] >>

TreePayloads(src) == {[hasTree |-> FALSE, tree |-> <<>>], [hasTree |-> TRUE, tree |-> TreeOf(src)]}

\* a call that does not deliver: a non-success status (the throw of App.tsx
\* 145/159), or a rejected promise (transport failure, abort, a body that
\* response.json() rejects)
Failures == {"status", "rejected"}

\* fetchRepoEntries' result for a delivered payload (App.tsx 162-168)
RepoEntries(payload, br, src) ==
    IF ~payload.hasTree THEN <<>>
    ELSE LET blobs == SelectSeq(payload.tree, LAMBDA item : item.type = "blob")
             mapped == [i \in 1..Len(blobs) |-> mapPathToEntry(blobs[i].path, br, src)]
         IN  SelectSeq(mapped, LAMBDA e : e # Null)

\* the record an earlier session's successful load left under the key
PreviousItem(src) ==
    JsonItem(0, RepoEntries([hasTree |-> TRUE, tree |-> TreeOf(src)],
                            CONFIG[src].fallbackBranch, src),
             CONFIG[src].fallbackBranch, "2023-12-31")

Note(text, n, label) == [text |-> text, n |-> n, label |-> label]

Snapshot == [entries |-> entries, branch |-> branch, updatedAt |-> updatedAt]

Quiet ==
    [op |-> "none", id |-> 0, source |-> "gitee", force |-> FALSE, started |-> FALSE,
     finished |-> FALSE, failed |-> "none", threw |-> FALSE, alone |-> FALSE,
     before |-> [entries |-> <<>>, branch |-> "", updatedAt |-> Absent]]

\* loadData up to its first await (App.tsx 210-241)
LoadData(src, forceUpdate) ==
    /\ started < MaxLoads
    /\ started' = started + 1
    /\ LET item == cache[src]
           hit == ~forceUpdate /\ item.kind = "json" /\ CacheIsFresh(item.timestamp)
       IN  IF hit
           THEN /\ entries' = item.data
                /\ branch' = item.branch
                /\ updatedAt' = item.updatedAt
                /\ status' = "ready"
                /\ statusNote' = Note("cache loaded", item.timestamp, "")
                /\ fromCache' = TRUE
                /\ loads' = {[l EXCEPT !.alone = FALSE] : l \in loads}
                /\ owner' = [owner EXCEPT !.entries = src]
                /\ ev' = [Quiet EXCEPT !.op = "loadData", !.id = started + 1,
                                       !.source = src, !.force = forceUpdate,
                                       !.started = TRUE, !.finished = TRUE,
                                       !.alone = (loads = {}), !.before = Snapshot]
           ELSE /\ status' = "loading"
                /\ statusNote' = Note("connecting", 0, CONFIG[src].label)
                /\ fromCache' = FALSE
                /\ loads' = {[l EXCEPT !.alone = FALSE] : l \in loads} \cup
                            {[id |-> started + 1, source |-> src, pc |-> "repo",
                              repoInfo |-> [default_branch |-> Absent, pushed_at |-> Absent],
                              branchName |-> "", alone |-> (loads = {}), before |-> Snapshot]}
                /\ ev' = [Quiet EXCEPT !.op = "loadData", !.id = started + 1,
                                       !.source = src, !.force = forceUpdate,
                                       !.started = TRUE]
                /\ UNCHANGED <<entries, branch, updatedAt, owner>>

\* useEffect(() => { loadData(dataSource) }, [dataSource]) on mount
Mount ==
    /\ started = 0
    /\ LoadData(dataSource, FALSE)
    /\ UNCHANGED <<dataSource, cache, now, ticks,
                   varsParse, varsOpt, filteredText, year, contest, level>>

\* the source radio buttons: setDataSource, then the effect
SwitchSource ==
    /\ started > 0
    /\ \E s \in DataSources \ {dataSource} :
          /\ dataSource' = s
          /\ LoadData(s, FALSE)
    /\ UNCHANGED <<cache, now, ticks,
                   varsParse, varsOpt, filteredText, year, contest, level>>

\* the button shown while fromCache, confirmed
handleForceRefresh ==
    /\ started > 0
    /\ fromCache
    /\ LoadData(dataSource, TRUE)
    /\ UNCHANGED <<dataSource, cache, now, ticks,
                   varsParse, varsOpt, filteredText, year, contest, level>>

\* the catch branch (App.tsx 265-284)
Catch(l, kind) ==
    LET item == cache[l.source]
        done == [Quiet EXCEPT !.op = "catch", !.id = l.id, !.source = l.source,
                              !.finished = TRUE, !.failed = kind,
                              !.alone = l.alone, !.before = l.before]
    IN  IF item.kind = "corrupt"
        THEN \* JSON.parse throws inside the catch block: loadData's promise rejects
             /\ ev' = [done EXCEPT !.threw = TRUE]
             /\ owner' = [owner EXCEPT !.crashed = TRUE]
             /\ UNCHANGED <<entries, branch, updatedAt, status, statusNote, fromCache>>
        ELSE IF item.kind = "json"
        THEN /\ entries' = item.data
             /\ branch' = item.branch
             /\ updatedAt' = item.updatedAt
             /\ status' = "ready"
             /\ statusNote' = Note("stale cache", item.timestamp, "")
             /\ fromCache' = TRUE
             /\ owner' = [owner EXCEPT !.entries = l.source]
             /\ ev' = done
        ELSE /\ entries' = SAMPLE_ENTRIES
             /\ status' = "error"
             /\ statusNote' = Note("failed", 0, CONFIG[l.source].label)
             /\ owner' = [owner EXCEPT !.entries = l.source]
             /\ ev' = done
             /\ UNCHANGED <<branch, updatedAt, fromCache>>

\* const branchName = repoInfo.default_branch ?? conf.fallbackBranch
BranchName(repoInfo, src) ==
    IF repoInfo.default_branch = Absent THEN CONFIG[src].fallbackBranch
    ELSE repoInfo.default_branch

\* await fetchDefaultBranch(...) settles (App.tsx 241-247)
RepoInfoDelivered ==
    /\ \E l \in loads : \E info \in RepoInfos(l.source) :
          /\ l.pc = "repo"
          /\ branch' = BranchName(info, l.source)
          /\ updatedAt' = info.pushed_at
          /\ statusNote' = Note("downloading", 0, "")
          /\ loads' = (loads \ {l}) \cup
                      {[l EXCEPT !.pc = "tree", !.repoInfo = info,
                                 !.branchName = BranchName(info, l.source)]}
          /\ ev' = [Quiet EXCEPT !.op = "repoInfo", !.id = l.id, !.source = l.source]
    /\ UNCHANGED <<dataSource, entries, status, fromCache, cache, now, started, ticks, owner,
                   varsParse, varsOpt, filteredText, year, contest, level>>

RepoInfoFailed ==
    /\ \E l \in loads, kind \in Failures :
          /\ l.pc = "repo"
          /\ Catch(l, kind)
          /\ loads' = loads \ {l}
    /\ UNCHANGED <<dataSource, cache, now, started, ticks,
                   varsParse, varsOpt, filteredText, year, contest, level>>

\* await fetchRepoEntries(...) settles (App.tsx 247-263); localStorage.setItem may throw
TreeDelivered ==
    /\ \E l \in loads : \E payload \in TreePayloads(l.source), saved \in BOOLEAN :
          /\ l.pc = "tree"
          /\ LET repoEntries == RepoEntries(payload, l.branchName, l.source)
             IN  /\ entries' = repoEntries
                 /\ status' = "ready"
                 /\ statusNote' = Note("updated", Len(repoEntries), "")
                 /\ cache' = IF saved
                             THEN [cache EXCEPT ![l.source] =
                                     JsonItem(now, repoEntries, l.branchName,
                                              l.repoInfo.pushed_at)]
                             ELSE cache
          /\ loads' = loads \ {l}
          /\ owner' = [owner EXCEPT !.entries = l.source]
          /\ ev' = [Quiet EXCEPT !.op = "tree", !.id = l.id, !.source = l.source,
                                 !.finished = TRUE, !.alone = l.alone,
                                 !.before = l.before]
    /\ UNCHANGED <<dataSource, branch, updatedAt, fromCache, now, started, ticks,
                   varsParse, varsOpt, filteredText, year, contest, level>>

TreeFailed ==
    /\ \E l \in loads, kind \in Failures :
          /\ l.pc = "tree"
          /\ Catch(l, kind)
          /\ loads' = loads \ {l}
    /\ UNCHANGED <<dataSource, cache, now, started, ticks,
                   varsParse, varsOpt, filteredText, year, contest, level>>

\* time passes
Tick ==
    /\ ticks < MaxTicks
    /\ \E s \in DataSources : cache[s].kind = "json"
    /\ ticks' = ticks + 1
    /\ \E d \in {1, CACHE_DURATION - 1} : now' = now + d
    /\ ev' = Quiet
    /\ UNCHANGED <<dataSource, entries, status, statusNote, branch, updatedAt,
                   fromCache, cache, loads, started, owner,
                   varsParse, varsOpt, filteredText, year, contest, level>>

\* the item under a cache key stops being readable (storage edited, truncated
\* or written by something else)
CacheCorrupted ==
    /\ \E s \in DataSources :
          /\ cache[s].kind = "json"
          /\ cache' = [cache EXCEPT ![s] = CorruptItem]
    /\ ev' = Quiet
    /\ UNCHANGED <<dataSource, entries, status, statusNote, branch, updatedAt,
                   fromCache, now, loads, started, ticks, owner,
                   varsParse, varsOpt, filteredText, year, contest, level>>

(***************************************************************************)
(* The specifications.                                                     *)
(***************************************************************************)
\* mapPathToEntry on paths joined from the directory and file names above
InitParse ==
    /\ parts \in {Append(dirs, file) : dirs \in SeqsUpTo(DirTokens, MaxDirs),
                                        file \in FileTokens}
    /\ path = Join(parts, "/")
    /\ source \in DataSources
    /\ result = NotCalled
    /\ values = <<>>
    /\ sortNumber = FALSE
    /\ options = NotCalled
    /\ entries = <<>>
    /\ filteredText = <<>>
    /\ year = <<>>
    /\ contest = <<>>
    /\ level = <<>>
    /\ dataSource = "gitee"
    /\ status = "loading"
    /\ statusNote = Note("initializing", 0, "")
    /\ branch = ""
    /\ updatedAt = Absent
    /\ fromCache = FALSE
    /\ cache = [s \in DataSources |-> NoItem]
    /\ now = 0
    /\ loads = {}
    /\ started = 0
    /\ ticks = 0
    /\ ev = Quiet
    /\ owner = [entries |-> "none", crashed |-> FALSE]

SpecParse == InitParse /\ [][MapPath]_vars

\* buildOptions on arrays over OptionPool
InitOptions ==
    /\ values \in SeqsUpTo(OptionPool, MaxValues)
    /\ sortNumber \in BOOLEAN
    /\ options = NotCalled
    /\ parts = <<>>
    /\ path = <<>>
    /\ source = "gitee"
    /\ result = NotCalled
    /\ entries = <<>>
    /\ filteredText = <<>>
    /\ year = <<>>
    /\ contest = <<>>
    /\ level = <<>>
    /\ dataSource = "gitee"
    /\ status = "loading"
    /\ statusNote = Note("initializing", 0, "")
    /\ branch = ""
    /\ updatedAt = Absent
    /\ fromCache = FALSE
    /\ cache = [s \in DataSources |-> NoItem]
    /\ now = 0
    /\ loads = {}
    /\ started = 0
    /\ ticks = 0
    /\ ev = Quiet
    /\ owner = [entries |-> "none", crashed |-> FALSE]

SpecOptions == InitOptions /\ [][BuildOptions]_vars

\* the filter controls over collections of distinct entries of EntryPool
InitView ==
    /\ entries \in {es \in SeqsUpTo(EntryPool, MaxEntries) :
                      \A i, j \in 1..Len(es) : es[i] = es[j] => i = j}
    /\ filteredText = <<>>
    /\ year = <<>>
    /\ contest = <<>>
    /\ level = <<>>
    /\ parts = <<>>
    /\ path = <<>>
    /\ source = "gitee"
    /\ result = NotCalled
    /\ values = <<>>
    /\ sortNumber = FALSE
    /\ options = NotCalled
    /\ dataSource = "gitee"
    /\ status = "loading"
    /\ statusNote = Note("initializing", 0, "")
    /\ branch = ""
    /\ updatedAt = Absent
    /\ fromCache = FALSE
    /\ cache = [s \in DataSources |-> NoItem]
    /\ now = 0
    /\ loads = {}
    /\ started = 0
    /\ ticks = 0
    /\ ev = Quiet
    /\ owner = [entries |-> "none", crashed |-> FALSE]

NextView ==
    \/ setYear
    \/ setContest
    \/ setLevel
    \/ setFilteredText
    \/ ResetFilters

SpecView == InitView /\ [][NextView]_vars

\* loadData, the source switch, the force refresh and their environment
Init ==
    /\ dataSource = "gitee"
    /\ status = "loading"
    /\ statusNote = Note("initializing", 0, "")
    /\ branch = ""
    /\ updatedAt = Absent
    /\ fromCache = FALSE
    /\ cache \in {[s \in DataSources |-> NoItem],
                  [s \in DataSources |-> IF s = "gitee" THEN PreviousItem(s) ELSE NoItem]}
    /\ now = 0
    /\ loads = {}
    /\ started = 0
    /\ ticks = 0
    /\ ev = Quiet
    /\ owner = [entries |-> "none", crashed |-> FALSE]
    /\ entries = <<>>
    /\ filteredText = <<>>
    /\ year = <<>>
    /\ contest = <<>>
    /\ level = <<>>
    /\ parts = <<>>
    /\ path = <<>>
    /\ source = "gitee"
    /\ result = NotCalled
    /\ values = <<>>
    /\ sortNumber = FALSE
    /\ options = NotCalled

Next ==
    \/ Mount
    \/ SwitchSource
    \/ handleForceRefresh
    \/ RepoInfoDelivered
    \/ RepoInfoFailed
    \/ TreeDelivered
    \/ TreeFailed
    \/ Tick
    \/ CacheCorrupted

Spec == Init /\ [][Next]_vars

(***************************************************************************)
(* Properties of mapPathToEntry (under SpecParse).  They are stated over   *)
(* parts, the names the path was joined from, not over the code's own      *)
(* split of the path.                                                      *)
(***************************************************************************)
PartsDirs == SubSeq(parts, 1, Len(parts) - 1)
PartsFile == parts[Len(parts)]

ExactlyFourDigits(s) == Len(s) = 4 /\ \A i \in 1..4 : s[i] \in Digits

\* positions (from 1) of the directory names that are exactly four digits
YearDirs == {i \in 1..Len(PartsDirs) : ExactlyFourDigits(PartsDirs[i])}

\* the file name without its final ".extension" (a dot and what follows it,
\* when something follows it)
FileStem ==
    LET f == PartsFile
        cut == {k \in 1..(Len(f) - 1) : f[k] = "." /\ \A j \in (k + 1)..Len(f) : f[j] # "."}
    IN  IF cut = {} THEN f ELSE SubSeq(f, 1, SetMin(cut) - 1)

Parsed == result # NotCalled /\ PartsFile # <<>>

\* C1: for a path with a non-empty file name, year is the first directory
\* segment that is exactly four digits; with no such directory it is the file
\* name's stem when the stem is exactly four digits; otherwise it is absent.
\* So a year that is present is exactly four digits.
C1_YearInference ==
    Parsed =>
        /\ result # Null
        /\ result.year = IF YearDirs # {} THEN PartsDirs[SetMin(YearDirs)]
                         ELSE IF ExactlyFourDigits(FileStem) THEN FileStem
                         ELSE Undefined
        /\ result.year # Undefined => ExactlyFourDigits(result.year)

\* C1's case: two different four-digit directories, the first one wins
C1_Witness ==
    /\ Parsed
    /\ \E i, j \in YearDirs : i < j /\ PartsDirs[i] # PartsDirs[j]
                                    /\ result.year = PartsDirs[i]

\* an empty string and an absent value read alike
Blank(v) == IF v = <<>> THEN Undefined ELSE v

\* C2 as stated: level is the directory after the first four-digit directory
\* when that directory exists; failing that, the directory before it when the
\* year's index (from 0) is at least 2; absent otherwise.  (Read generously:
\* an empty level counts as an absent one.)
C2_LevelAsStated ==
    Parsed =>
        Blank(result.level) =
            Blank(IF YearDirs = {} THEN Undefined
                  ELSE LET y == SetMin(YearDirs)
                       IN  IF y + 1 <= Len(PartsDirs) THEN PartsDirs[y + 1]
                           ELSE IF y - 1 >= 2 THEN PartsDirs[y - 1]
                           ELSE Undefined)

\* C2 amended: level is the directory after the first four-digit directory
\* when that directory exists and is not empty; failing that, the directory
\* before the year when the year's index (from 0) is at least 2; absent
\* otherwise, and always absent when no directory is a year.
C2_LevelInference ==
    Parsed =>
        result.level =
            IF YearDirs = {} THEN Undefined
            ELSE LET y == SetMin(YearDirs)
                 IN  IF y + 1 <= Len(PartsDirs) /\ PartsDirs[y + 1] # <<>>
                     THEN PartsDirs[y + 1]
                     ELSE IF y - 1 >= 2 THEN PartsDirs[y - 1]
                     ELSE Undefined

\* C2's case: an empty directory follows the year directory, two directories
\* precede the year, and the level is the directory before the year
C2_Witness ==
    /\ Parsed
    /\ YearDirs # {}
    /\ SetMin(YearDirs) >= 3
    /\ SetMin(YearDirs) + 1 <= Len(PartsDirs)
    /\ PartsDirs[SetMin(YearDirs) + 1] = <<>>
    /\ result.level = PartsDirs[SetMin(YearDirs) - 1]
    /\ result.level # <<>>

(***************************************************************************)
(* Properties of buildOptions (under SpecOptions).                         *)
(***************************************************************************)
\* C9: buildOptions depends on the multiset of its input only: every
\* rearrangement of the input gives the same output, in either sort mode.
C9_OrderIndependent ==
    options # NotCalled =>
        \A other \in Rearrangements(values) :
            buildOptions(other, sortNumber) = options.value

(***************************************************************************)
(* Properties of the filteredEntries comparator (under SpecView).          *)
(***************************************************************************)
Before(a, b) == IsNegative(EntryComparator(a, b))

\* C3: the comparator is a total order on entries: of two entries with
\* distinct paths exactly one precedes the other, precedence is transitive,
\* and sorting any rearrangement of the entries gives the same sequence.
C3_TotalOrder ==
    /\ \A i, j \in 1..Len(entries) :
          entries[i].path # entries[j].path =>
              (Before(entries[i], entries[j]) # Before(entries[j], entries[i]))
    /\ \A i, j, k \in 1..Len(entries) :
          Before(entries[i], entries[j]) /\ Before(entries[j], entries[k])
              => Before(entries[i], entries[k])
    /\ \A other \in Rearrangements(entries) :
          filteredEntriesOf(other, year, contest, level, filteredText) = filteredEntries

(***************************************************************************)
(* Properties of loadData (under Spec).  ev describes the step that led to *)
(* the state: which loadData invocation it belonged to, whether it began   *)
(* or ended the invocation, and how.                                       *)
(***************************************************************************)
\* C4: every loadData invocation ends with status 'ready' or 'error' and a
\* status note of its own; none ends in an unhandled error.
C4_LoadAlwaysSettles ==
    ev.finished =>
        /\ ~ev.threw
        /\ status \in {"ready", "error"}
        /\ statusNote.text \in {"cache loaded", "updated", "stale cache", "failed"}

\* C5: after a failed network call, a load ends on the cache record of its
\* source when there is one, whatever its age (entries, branch and updatedAt
\* those of the record, status 'ready', fromCache), and on the sample
\* collection with status 'error' when there is none; the collection is not
\* empty unless the cached one was.
C5_FailedFetchFallsBack ==
    (ev.finished /\ ev.failed # "none") =>
        LET item == cache[ev.source]
        IN  /\ IF item.kind # "none"
               THEN /\ item.kind = "json"
                    /\ entries = item.data
                    /\ branch = item.branch
                    /\ updatedAt = item.updatedAt
                    /\ status = "ready"
                    /\ fromCache
               ELSE /\ entries = SAMPLE_ENTRIES
                    /\ status = "error"
            /\ (item.kind = "none" \/ item.data # <<>>) => entries # <<>>

\* the load the last step began, if it is awaiting a network call
Issued == {l \in loads : l.id = ev.id}

\* C6: a non-forced load that finds a record written less than 24 hours ago
\* ends at once on the record, with status 'ready' and no network call; a
\* non-forced load with no record or one 24 hours old or older, and every
\* forced load, issues the repository metadata call; the file tree call is
\* issued only after it, for the branch the metadata call gave.
C6_CachePolicy ==
    LET item == cache[ev.source]
        age == now - item.timestamp
    IN  /\ (ev.started /\ ~ev.force /\ item.kind = "json" /\ age < 86400000) =>
               /\ ev.finished
               /\ entries = item.data
               /\ status = "ready"
               /\ Issued = {}
        /\ (ev.started /\ (ev.force \/ item.kind = "none"
                                    \/ (item.kind = "json" /\ age >= 86400000))) =>
               /\ ~ev.finished
               /\ \E l \in Issued : l.pc = "repo"
        /\ \A l \in loads :
               l.pc = "tree" =>
                   l.branchName = IF l.repoInfo.default_branch = Absent
                                  THEN CONFIG[l.source].fallbackBranch
                                  ELSE l.repoInfo.default_branch

\* C6's case: a non-forced load found a record one millisecond short of 24
\* hours old and ended on it
C6_Witness ==
    /\ ev.started
    /\ ~ev.force
    /\ cache[ev.source].kind = "json"
    /\ now - cache[ev.source].timestamp = 86400000 - 1
    /\ ev.finished
    /\ entries = cache[ev.source].data
    /\ entries # <<>>

\* C7: every entry of the collection has id = path, and no two entries share
\* a path.
C7_IdIsPath ==
    /\ \A i \in 1..Len(entries) : entries[i].id = entries[i].path
    /\ \A i, j \in 1..Len(entries) : entries[i].path = entries[j].path => i = j

\* C8: a load whose network call was cut off (the fetch rejected) commits
\* nothing: with no other load running meanwhile, entries, branch and
\* updatedAt are afterwards what they were when the load began.
C8_CancelCommitsNothing ==
    (ev.finished /\ ev.failed = "rejected" /\ ev.alone) => Snapshot = ev.before

\* C10: once every started load has ended (none of them in an unhandled
\* error), the entries shown were written by a load for the selected source.
C10_NoStaleOverwrite ==
    (started > 0 /\ loads = {} /\ ~owner.crashed) => owner.entries = dataSource

=============================================================================
